---- MODULE Spec2Model ----
(***************************************************************************)
(* Model of git-pr-chain.py: the commit chain between the tracked upstream *)
(* branch and HEAD, the resolution of each commit's github branch from its *)
(* commit message, the validation of the chain, and the upload command     *)
(* (force-push one branch per group, then create or update one pull        *)
(* request per group).                                                     *)
(***************************************************************************)
EXTENDS Integers, Sequences, FiniteSets, TLC

\* Longest chain of commits between the upstream branch and HEAD.
MaxCommits == 3
\* Number of times the upload command is run in a row.
MaxRuns == 2

VARIABLES
    commits,    \* the local chain, root first: [msg, parents] per commit; the sha is the index
    upstream,   \* output of git_upstream_branch(), split at "/"
    DRY_RUN,    \* the global flag set by --dry-run
    refs,       \* remote branches: name -> sha
    pulls,      \* open pull requests on the remote: [number, head, base]
    pc,         \* position of the upload command
    groups,     \* grouped_commits of the running command: [branch, cs]
    pushres,    \* state of each push handed to the thread pool
    idx,        \* loop index of create_and_update_prs (1-based)
    err,        \* what ended the run: [kind, commits, branches]
    log,        \* mutating collaborator calls issued by the current run
    run,        \* number of the current run of upload
    prevclean,  \* the previous run ended without error and every push succeeded
    out         \* lines printed by the current run about its pushes and pull requests

vars == <<commits, upstream, DRY_RUN, refs, pulls, pc, groups, pushres, idx, err, log, run, prevclean, out>>

----------------------------------------------------------------------------
\* Commit messages: a message is a sequence of lines; a line is either plain
\* text (kw = "") or "<kw>: <val>" at the start of the line.

Line(kw, val) == [kw |-> kw, val |-> val]

\* The text of a line as it stands in the commit message.
LineText(l) ==
    IF l.kw = "" THEN l.val
    ELSE IF l.val = "" THEN l.kw \o ":"
    ELSE l.kw \o ": " \o l.val

\* Optional values: None is the empty sequence, Some(v) a singleton.
None == <<>>
Some(v) == <<v>>

\* Python truthiness of an Optional[str].
Truthy(b) == b # None /\ b # Some("")

\* re.findall(r"^(?:git-pr-chain|GPC):\s*(.*)", msg, re.MULTILINE), from line i on.
\* \s* also matches the newline: an annotation line with an empty value
\* captures the whole next line, and the scan resumes after that line.
RECURSIVE FindAllFrom(_, _)
FindAllFrom(msg, i) ==
    IF i > Len(msg) THEN <<>>
    ELSE IF msg[i].kw \notin {"git-pr-chain", "GPC"} THEN FindAllFrom(msg, i + 1)
    ELSE IF msg[i].val # "" THEN <<msg[i].val>> \o FindAllFrom(msg, i + 1)
    ELSE IF i = Len(msg) THEN <<"">>
    ELSE <<LineText(msg[i + 1])>> \o FindAllFrom(msg, i + 2)

FindAll(msg) == FindAllFrom(msg, 1)

\* re.search(r"(git-pr-chain|GPC):\s*STOP\>", msg): "\>" is a literal ">".
StopSearch(msg) ==
    \E i \in 1..Len(msg) :
        /\ msg[i].kw \in {"git-pr-chain", "GPC"}
        /\ msg[i].val = "STOP>"

\* Commit.not_to_be_pushed
RECURSIVE not_to_be_pushed(_, _)
not_to_be_pushed(cs, i) ==
    IF i > 1 /\ not_to_be_pushed(cs, i - 1) THEN TRUE
    ELSE StopSearch(cs[i].msg)

\* Outcome of Commit.gh_branch: a label, or the fatal error naming a commit.
Label(b) == [fatal |-> FALSE, branch |-> b, sha |-> 0]
MultipleLines(i) == [fatal |-> TRUE, branch |-> None, sha |-> i]

\* A resolver in which a commit without annotation gets no label.
gh_branchNoInherit(cs, i) ==
    IF not_to_be_pushed(cs, i) THEN Label(None)
    ELSE LET matches == FindAll(cs[i].msg) IN
         IF Len(matches) = 0 THEN Label(None)
         ELSE IF Len(matches) = 1 THEN Label(Some(matches[1]))
         ELSE MultipleLines(i)

\* Commit.gh_branch
RECURSIVE gh_branch(_, _)
gh_branch(cs, i) ==
    IF not_to_be_pushed(cs, i) THEN Label(None)
    ELSE LET matches == FindAll(cs[i].msg) IN
         IF Len(matches) = 0
         THEN IF i > 1 THEN gh_branch(cs, i - 1) ELSE Label(None)
         ELSE IF Len(matches) = 1 THEN Label(Some(matches[1]))
         ELSE MultipleLines(i)

\* git show --no-patch --format=%P: one line holding all the parent hashes.
ShowParents(c) == << [j \in 1..c.parents |-> j] >>

\* Commit.is_merge_commit: number of lines of that output > 1.
is_merge_commit(c) == Len(ShowParents(c)) > 1

\* itertools.groupby(commits, lambda c: c.gh_branch), on the resolved labels:
\* the maximal runs of equal labels, in order, as [branch, cs].
RECURSIVE GroupByFrom(_, _, _)
GroupByFrom(labels, i, acc) ==
    IF i > Len(labels) THEN acc
    ELSE IF acc # <<>> /\ acc[Len(acc)].branch = labels[i]
         THEN GroupByFrom(labels, i + 1,
                [acc EXCEPT ![Len(acc)].cs = Append(@, i)])
         ELSE GroupByFrom(labels, i + 1,
                Append(acc, [branch |-> labels[i], cs |-> <<i>>]))

GroupBy(labels) == GroupByFrom(labels, 1, <<>>)

\* The groupby iterator as left by the Counter comprehension, which reads it
\* to its end: nothing remains for the no-branch check.
GroupsLeftAfterCount(grouped) == <<>>

NoError == [kind |-> "none", commits |-> {}, branches |-> {}]
Fatal(kind, cs, bs) == [kind |-> kind, commits |-> cs, branches |-> bs]

\* A count that misses a branch seen exactly twice.
RepeatedBranchesOverTwice(grouped) ==
    {b \in {grouped[g].branch[1] : g \in {h \in 1..Len(grouped) : Truthy(grouped[h].branch)}} :
        Cardinality({g \in 1..Len(grouped) : grouped[g].branch = Some(b)}) > 2}

\* collections.Counter over the truthy branches of the groups, then the
\* branches counted more than once.
RepeatedBranches(grouped) ==
    {b \in {grouped[g].branch[1] : g \in {h \in 1..Len(grouped) : Truthy(grouped[h].branch)}} :
        Cardinality({g \in 1..Len(grouped) : grouped[g].branch = Some(b)}) > 1}

\* validate_branch_commits, given the resolved labels.
validate_branch_commits(cs, labels) ==
    LET merge_commits == {i \in 1..Len(cs) : is_merge_commit(cs[i])}
        grouped == GroupBy(labels)
        repeated_branches == RepeatedBranches(grouped)
        left == GroupsLeftAfterCount(grouped)
        commits_without_branch ==
            UNION {{left[g].cs[k] : k \in 1..Len(left[g].cs)} :
                   g \in {h \in 2..(Len(left) - 1) : ~Truthy(left[h].branch)}}
    IN  IF merge_commits # {} THEN Fatal("merge", merge_commits, {})
        ELSE IF repeated_branches # {} THEN Fatal("aaba", {}, repeated_branches)
        ELSE IF commits_without_branch # {} THEN Fatal("nobranch", commits_without_branch, {})
        ELSE NoError

\* The order in which branch_commits first reads gh_branch: the inference
\* loop reads commits 2..n, then groupby in the validator reads all of them.
EvalOrder(n) == [k \in 1..n |-> IF k < n THEN k + 1 ELSE 1]

\* branch_commits: the error that ends it, or NoError.
branch_commits_error(cs, up) ==
    IF up = <<>> THEN Fatal("noupstream", {}, {})
    ELSE LET n == Len(cs)
             bad == {k \in 1..n : gh_branch(cs, EvalOrder(n)[k]).fatal}
         IN  IF bad # {}
             THEN LET first == CHOOSE k \in bad : \A j \in bad : k <= j
                  IN  Fatal("multiple", {gh_branch(cs, EvalOrder(n)[first]).sha}, {})
             ELSE validate_branch_commits(cs, [i \in 1..n |-> gh_branch(cs, i).branch])

\* The labels of the chain returned by branch_commits.
Labels(cs) == [i \in 1..Len(cs) |-> gh_branch(cs, i).branch]

\* git config pr-chain.branch-prefix
gh_branch_prefix == "me-"

\* grouped_commits of push_branches and create_and_update_prs; the
\* concatenation raises TypeError when a group has branch None.
GroupedRaises(cs) == \E g \in 1..Len(GroupBy(Labels(cs))) : GroupBy(Labels(cs))[g].branch = None

grouped_commits(cs) ==
    LET grouped == GroupBy(Labels(cs))
    IN  [g \in 1..Len(grouped) |->
            [branch |-> gh_branch_prefix \o grouped[g].branch[1], cs |-> grouped[g].cs]]

\* git_upstream_remote(): git_upstream_branch().split("/")[0]
git_upstream_remote(up) == up[1]

\* git_upstream_branch().split("/")[-1]
UpstreamBase(up) == up[Len(up)]

----------------------------------------------------------------------------
\* Inputs.

Text == Line("", "fix typo")

\* Commit messages of the upload runs.
SimpleMessages ==
    { <<Text>>,
      <<Line("GPC", "x")>>,
      <<Line("git-pr-chain", "y")>>,
      <<Line("GPC", "")>> }

\* Commit messages of the chain analysis.
Messages ==
    SimpleMessages \cup
    { <<Line("GPC", "STOP")>>,
      <<Line("git-pr-chain", "STOP>")>>,
      <<Line("GPC", "x"), Line("git-pr-chain", "y")>>,
      <<Line("GPC", ""), Line("GPC", "x")>> }

Chains(msgs, parents) ==
    UNION {[1..k -> [msg : msgs, parents : parents]] : k \in 0..MaxCommits}

\* Number of commits of a chain with more than one parent.
Merges(cs) == Cardinality({i \in 1..Len(cs) : cs[i].parents > 1})

\* Outputs of git_upstream_branch(), split at "/": none, origin/main and
\* origin/feature/foo.
Upstreams == { <<>>, <<"origin", "main">>, <<"origin", "feature", "foo">> }

PR(n, head, base) == [number |-> n, head |-> head, base |-> base]

\* Open pull requests found on the remote before the first run.
PullScenarios ==
    { {},
      {PR(1, "me-x", "develop")},
      {PR(1, "me-x", "main"), PR(2, "me-y", "me-x")},
      {PR(1, "me-x", "main"), PR(2, "me-x", "develop")} }

NoRefs == [b \in {} |-> 0]

Start ==
    /\ refs = NoRefs
    /\ pc = "idle"
    /\ groups = <<>>
    /\ pushres = <<>>
    /\ idx = 0
    /\ err = NoError
    /\ log = {}
    /\ run = 0
    /\ prevclean = FALSE
    /\ out = {}

\* Upload runs: plain chains, every upstream, both modes, several remotes.
Init ==
    /\ commits \in Chains(SimpleMessages, {1})
    /\ upstream \in Upstreams
    /\ DRY_RUN \in BOOLEAN
    /\ pulls \in PullScenarios
    /\ Start

\* Chain analysis: every message, at most one merge commit, one upstream, one
\* remote.
InitChain ==
    /\ commits \in {cs \in Chains(Messages, {1, 2}) : Merges(cs) <= 1}
    /\ upstream = <<"origin", "main">>
    /\ DRY_RUN = FALSE
    /\ pulls = {}
    /\ Start

----------------------------------------------------------------------------
\* Collaborator calls recorded in log.
PushCall(branch, sha, ok) ==
    [op |-> "push", branch |-> branch, sha |-> sha, base |-> "", number |-> 0, ok |-> ok]
CreateCall(branch, base, n) ==
    [op |-> "create", branch |-> branch, sha |-> 0, base |-> base, number |-> n, ok |-> TRUE]
EditCall(branch, base, n) ==
    [op |-> "edit", branch |-> branch, sha |-> 0, base |-> base, number |-> n, ok |-> TRUE]

\* Lines printed to stdout (VERBOSE is off): "DRY RUN: Pushing <branch> to
\* <remote>", "Pushing <branch> to <remote>: ...", "Creating PR for <branch>,
\* base <base>...", "Created <url>", "Updating base branch for <branch> ... to
\* <base>".
Printed(line, branch, base) == [line |-> line, branch |-> branch, base |-> base]

\* An executor that is left without waiting for its tasks.
AllPushedNoWait == TRUE

AllPushed == \A g \in 1..Len(pushres) : pushres[g] # "pending"
AllPushesOk == \A g \in 1..Len(pushres) : pushres[g] = "ok"

\* cmd_upload up to the hand-over of the pushes to the thread pool:
\* branch_commits(), grouped_commits, git_upstream_remote(), executor.map.
Upload ==
    /\ run' = run + 1
    /\ prevclean' = (pc = "done" /\ AllPushesOk)
    /\ log' = {}
    /\ out' = {}
    /\ idx' = 0
    /\ LET e == branch_commits_error(commits, upstream) IN
       IF e # NoError
       THEN /\ pc' = "fatal"
            /\ err' = e
            /\ groups' = <<>>
            /\ pushres' = <<>>
       ELSE IF GroupedRaises(commits)
       THEN /\ pc' = "crashed"
            /\ err' = Fatal("TypeError", {}, {})
            /\ groups' = <<>>
            /\ pushres' = <<>>
       ELSE /\ pc' = "pushing"
            /\ err' = NoError
            /\ groups' = grouped_commits(commits)
            /\ pushres' = [g \in 1..Len(grouped_commits(commits)) |-> "pending"]
    /\ UNCHANGED <<commits, upstream, DRY_RUN, refs, pulls>>

\* The first run of upload.
StartUpload ==
    /\ pc = "idle"
    /\ Upload

\* upload is run again after a run that returned.
RepeatUpload ==
    /\ pc = "done"
    /\ run < MaxRuns
    /\ Upload

\* git push -f remote sha:refs/heads/branch on the remote.
ForcePush(r, branch, sha) ==
    [b \in DOMAIN r \cup {branch} |-> IF b = branch THEN sha ELSE r[b]]

\* A push task that pushes the first commit of the group, cs[0].
PushFirstCommit(g, ok) ==
    /\ pc = "pushing"
    /\ g \in 1..Len(groups)
    /\ pushres[g] = "pending"
    /\ IF DRY_RUN
       THEN /\ ok
            /\ pushres' = [pushres EXCEPT ![g] = "ok"]
            /\ out' = out \cup {Printed("DRY RUN: Pushing", groups[g].branch, "")}
            /\ UNCHANGED <<refs, log>>
       ELSE /\ pushres' = [pushres EXCEPT ![g] = IF ok THEN "ok" ELSE "failed"]
            /\ refs' = IF ok THEN ForcePush(refs, groups[g].branch, groups[g].cs[1]) ELSE refs
            /\ log' = log \cup {PushCall(groups[g].branch, groups[g].cs[1], ok)}
            /\ out' = IF ok THEN out \cup {Printed("Pushing", groups[g].branch, "")} ELSE out
    /\ UNCHANGED <<commits, upstream, DRY_RUN, pulls, pc, groups, idx, err, run, prevclean>>

\* A push task that does not look at DRY_RUN.
PushIgnoringDryRun(g, ok) ==
    /\ pc = "pushing"
    /\ g \in 1..Len(groups)
    /\ pushres[g] = "pending"
    /\ pushres' = [pushres EXCEPT ![g] = IF ok THEN "ok" ELSE "failed"]
    /\ refs' = IF ok THEN ForcePush(refs, groups[g].branch, groups[g].cs[Len(groups[g].cs)])
                     ELSE refs
    /\ log' = log \cup {PushCall(groups[g].branch, groups[g].cs[Len(groups[g].cs)], ok)}
    /\ out' = IF ok THEN out \cup {Printed("Pushing", groups[g].branch, "")} ELSE out
    /\ UNCHANGED <<commits, upstream, DRY_RUN, pulls, pc, groups, idx, err, run, prevclean>>

\* push(), one task of the thread pool; ok is whether git push succeeds.  An
\* exception of the task stays in the future nobody reads.
Push(g, ok) ==
    /\ pc = "pushing"
    /\ g \in 1..Len(groups)
    /\ pushres[g] = "pending"
    /\ LET branch == groups[g].branch
           sha == groups[g].cs[Len(groups[g].cs)]
       IN  IF DRY_RUN
           THEN /\ ok
                /\ pushres' = [pushres EXCEPT ![g] = "ok"]
                /\ out' = out \cup {Printed("DRY RUN: Pushing", branch, "")}
                /\ UNCHANGED <<refs, log>>
           ELSE /\ pushres' = [pushres EXCEPT ![g] = IF ok THEN "ok" ELSE "failed"]
                /\ refs' = IF ok THEN ForcePush(refs, branch, sha) ELSE refs
                /\ log' = log \cup {PushCall(branch, sha, ok)}
                /\ out' = IF ok THEN out \cup {Printed("Pushing", branch, "")} ELSE out
    /\ UNCHANGED <<commits, upstream, DRY_RUN, pulls, pc, groups, idx, err, run, prevclean>>

\* The executor's with-block ends when every task has ended; then
\* create_and_update_prs runs branch_commits() again and builds grouped_commits.
StartReconcile ==
    /\ pc = "pushing"
    /\ AllPushed
    /\ LET e == branch_commits_error(commits, upstream) IN
       IF e # NoError
       THEN /\ pc' = "fatal"
            /\ err' = e
            /\ UNCHANGED <<groups, idx>>
       ELSE IF GroupedRaises(commits)
       THEN /\ pc' = "crashed"
            /\ err' = Fatal("TypeError", {}, {})
            /\ UNCHANGED <<groups, idx>>
       ELSE /\ pc' = "reconciling"
            /\ groups' = grouped_commits(commits)
            /\ idx' = 1
            /\ UNCHANGED err
    /\ UNCHANGED <<commits, upstream, DRY_RUN, refs, pulls, pushres, log, run, prevclean, out>>

\* The base computed for the group at position i of grouped_commits.
Base(gs, up, i) == IF i > 1 THEN gs[i - 1].branch ELSE UpstreamBase(up)

\* The open pull requests filtered on their base instead of their head.
OpenPullsByBase(ps, branch) == {pr \in ps : pr.base = branch}

\* The open pull requests without the filter on pr.head.ref.
OpenPullsUnfiltered(ps, branch) == ps

\* repo.get_pulls(state="open", head=branch) filtered by pr.head.ref == branch
OpenPulls(ps, branch) == {pr \in ps : pr.head = branch}

NextNumber(ps) == 1 + Cardinality(ps)

\* An iteration that passes over a branch with several open pull requests
\* and goes on with the next group.
ReconcileGroupSkipAmbiguous ==
    /\ pc = "reconciling"
    /\ idx <= Len(groups)
    /\ LET branch == groups[idx].branch
           base == Base(groups, upstream, idx)
           prs == {pr \in pulls : pr.head = branch}
       IN  IF prs = {}
           THEN IF DRY_RUN
                THEN /\ out' = out \cup {Printed("Creating PR", branch, base)}
                     /\ UNCHANGED <<pulls, log>>
                ELSE /\ pulls' = pulls \cup {PR(NextNumber(pulls), branch, base)}
                     /\ log' = log \cup {CreateCall(branch, base, NextNumber(pulls))}
                     /\ out' = out \cup {Printed("Created", branch, base)}
           ELSE IF Cardinality(prs) = 1
           THEN LET pr == CHOOSE p \in prs : TRUE IN
                /\ IF pr.base # base /\ ~DRY_RUN
                   THEN /\ pulls' = (pulls \ {pr}) \cup {PR(pr.number, branch, base)}
                        /\ log' = log \cup {EditCall(branch, base, pr.number)}
                   ELSE UNCHANGED <<pulls, log>>
                /\ out' = IF pr.base # base /\ DRY_RUN
                          THEN out \cup {Printed("Updating base branch", branch, base)}
                          ELSE out
           ELSE UNCHANGED <<pulls, log, out>>
    /\ idx' = idx + 1
    /\ UNCHANGED <<commits, upstream, DRY_RUN, refs, groups, pushres, run, prevclean, pc, err>>

\* One iteration of the loop of create_and_update_prs.
ReconcileGroup ==
    /\ pc = "reconciling"
    /\ idx <= Len(groups)
    /\ LET branch == groups[idx].branch
           base == Base(groups, upstream, idx)
           prs == OpenPulls(pulls, branch)
       IN  IF prs = {}
           THEN /\ IF DRY_RUN
                   THEN /\ out' = out \cup {Printed("Creating PR", branch, base)}
                        /\ UNCHANGED <<pulls, log>>
                   ELSE /\ pulls' = pulls \cup {PR(NextNumber(pulls), branch, base)}
                        /\ log' = log \cup {CreateCall(branch, base, NextNumber(pulls))}
                        /\ out' = out \cup {Printed("Created", branch, base)}
                /\ idx' = idx + 1
                /\ UNCHANGED <<pc, err>>
           ELSE IF Cardinality(prs) = 1
           THEN LET pr == CHOOSE p \in prs : TRUE IN
                /\ IF pr.base # base /\ ~DRY_RUN
                   THEN /\ pulls' = (pulls \ {pr}) \cup {PR(pr.number, branch, base)}
                        /\ log' = log \cup {EditCall(branch, base, pr.number)}
                   ELSE UNCHANGED <<pulls, log>>
                /\ out' = IF pr.base # base /\ DRY_RUN
                          THEN out \cup {Printed("Updating base branch", branch, base)}
                          ELSE out
                /\ idx' = idx + 1
                /\ UNCHANGED <<pc, err>>
           ELSE /\ pc' = "fatal"
                /\ err' = Fatal("multipleprs", {pr.number : pr \in prs}, {branch})
                /\ UNCHANGED <<pulls, log, idx, out>>
    /\ UNCHANGED <<commits, upstream, DRY_RUN, refs, groups, pushres, run, prevclean>>

\* The loop of create_and_update_prs is over and cmd_upload returns.
FinishUpload ==
    /\ pc = "reconciling"
    /\ idx > Len(groups)
    /\ pc' = "done"
    /\ UNCHANGED <<commits, upstream, DRY_RUN, refs, pulls, groups, pushres, idx, err, log, run, prevclean, out>>

\* One run of upload.
NextOnce ==
    \/ StartUpload
    \/ \E g \in 1..MaxCommits, ok \in BOOLEAN : Push(g, ok)
    \/ StartReconcile
    \/ ReconcileGroup
    \/ FinishUpload

Next ==
    \/ NextOnce
    \/ RepeatUpload

\* Repeated runs of upload.
Spec == Init /\ [][Next]_vars

\* One run of upload over the chains of the chain analysis.
SpecChain == InitChain /\ [][NextOnce]_vars

----------------------------------------------------------------------------
\* Vocabulary of the properties.

Keywords == {"git-pr-chain", "GPC"}

\* Number of annotation lines of a commit message.
AnnotationLines(msg) == Cardinality({i \in 1..Len(msg) : msg[i].kw \in Keywords})

\* The commit carries the terminal marker "git-pr-chain: STOP" or "GPC: STOP".
HasStopLine(msg) == \E i \in 1..Len(msg) : msg[i].kw \in Keywords /\ msg[i].val = "STOP"

\* No commit of the chain makes gh_branch end fatally.
NoMultiple == \A i \in 1..Len(commits) : ~gh_branch(commits, i).fatal

\* The labels that occur, leave and occur again.
ReappearingLabels(L) ==
    {v \in {L[i][1] : i \in {j \in 1..Len(L) : Truthy(L[j])}} :
        \E i, j, k \in 1..Len(L) :
            i < j /\ j < k /\ L[i] = Some(v) /\ L[k] = Some(v) /\ L[j] # Some(v)}

\* A commit with no label (None or empty) between two labelled commits.
HasGap(L) ==
    \E i, j, k \in 1..Len(L) :
        i < j /\ j < k /\ Truthy(L[i]) /\ ~Truthy(L[j]) /\ Truthy(L[k])

\* The first or the last commit has no label (None or empty).
HasUnlabelledEnd(L) == Len(L) > 0 /\ (~Truthy(L[1]) \/ ~Truthy(L[Len(L)]))

\* The prefixed names of the labelled runs.
LabelledNames(L) == {gh_branch_prefix \o L[i][1] : i \in {j \in 1..Len(L) : Truthy(L[j])}}

\* The tracked upstream branch without its remote: origin/feature/foo -> feature/foo.
RECURSIVE JoinSlash(_)
JoinSlash(parts) ==
    IF Len(parts) = 1 THEN parts[1] ELSE parts[1] \o "/" \o JoinSlash(Tail(parts))

TrackedBranch(up) == JoinSlash(Tail(up))

RunEnded == pc \in {"done", "fatal", "crashed"}

PushedBranches == {c.branch : c \in {d \in log : d.op = "push"}}

----------------------------------------------------------------------------
\* C1: when a chain that passes validation starts or ends with commits that
\* have no label, upload (not dry-run, no ambiguous pull request) ends having
\* pushed exactly the branches of the labelled runs, each with an open pull
\* request, and having pushed nothing for the unlabelled commits.
C1_UploadSkipsUnlabelled ==
    ( /\ run >= 1
      /\ ~DRY_RUN
      /\ RunEnded
      /\ err.kind # "multipleprs"
      /\ branch_commits_error(commits, upstream) = NoError
      /\ HasUnlabelledEnd(Labels(commits)) )
    => /\ pc = "done"
       /\ PushedBranches = LabelledNames(Labels(commits))
       /\ \A b \in LabelledNames(Labels(commits)) : \E pr \in pulls : pr.head = b

\* C2: every pull request created or re-based by create_and_update_prs gets
\* as base the name of the previous group, and for the first group the tracked
\* upstream branch of the current branch.
C2_BaseChain ==
    \A c \in {d \in log : d.op \in {"create", "edit"}} :
        \E i \in 1..Len(groups) :
            /\ groups[i].branch = c.branch
            /\ c.base = IF i > 1 THEN groups[i - 1].branch ELSE TrackedBranch(upstream)

\* C3: a chain in which a label occurs, is interrupted and occurs again is
\* rejected, by the AABA error naming exactly those labels when the chain has
\* no merge commit; and the AABA error is raised for no other chain.
C3_AABARejected ==
    (run >= 1 /\ upstream # <<>> /\ NoMultiple) =>
        LET R == ReappearingLabels(Labels(commits)) IN
        /\ R # {} => /\ pc = "fatal"
                     /\ Merges(commits) = 0 => err = Fatal("aaba", {}, R)
        /\ R = {} => err.kind # "aaba"

\* C3 witness: the chain x, y, x was rejected by the AABA error naming x.
C3_Witness ==
    /\ run >= 1
    /\ Labels(commits) = <<Some("x"), Some("y"), Some("x")>>
    /\ pc = "fatal"
    /\ err = Fatal("aaba", {}, {"x"})

\* C4: a chain with a run of commits without label between two labelled runs
\* is rejected with a fatal error.
C4_GapRejected ==
    (run >= 1 /\ HasGap(Labels(commits))) => pc = "fatal"

\* C5: a chain with a commit whose message has two or more annotation lines
\* ends in the fatal error about multiple git-pr-chain lines.
C5_MultipleLinesRejected ==
    (run >= 1 /\ upstream # <<>>
        /\ \E i \in 1..Len(commits) : AnnotationLines(commits[i].msg) >= 2)
    => pc = "fatal" /\ err.kind = "multiple"

\* C6: when commit k carries the terminal marker "GPC: STOP" or
\* "git-pr-chain: STOP", neither k nor a descendant of k is ever pushed, and
\* no remote branch is named after the marker.
C6_StopExcluded ==
    /\ \A k \in 1..Len(commits) :
          HasStopLine(commits[k].msg) =>
              \A c \in {d \in log : d.op = "push"} : c.sha < k
    /\ gh_branch_prefix \o "STOP" \notin DOMAIN refs

\* C7: a chain with a commit that has more than one parent ends in the fatal
\* merge-commit error and is never pushed.
C7_MergeRejected ==
    (run >= 1 /\ NoMultiple /\ Merges(commits) > 0) =>
        /\ pc = "fatal"
        /\ err.kind = "merge"
        /\ refs = NoRefs

\* C8: one iteration of create_and_update_prs (not dry-run) decides from the
\* open pull requests whose head is the group's branch: none, a pull request
\* with the computed base is created; one with another base, its base becomes
\* the computed base; one with the computed base, nothing changes; several, the
\* run ends fatally listing them and no pull request is created or edited.
C8_Decision ==
    [][ (pc = "reconciling" /\ idx <= Len(groups) /\ ~DRY_RUN) =>
        LET branch == groups[idx].branch
            base == Base(groups, upstream, idx)
            prs == {pr \in pulls : pr.head = branch}
        IN  /\ prs = {} =>
                /\ \E n \in 1..(Cardinality(pulls) + 1) :
                      /\ \A pr \in pulls : pr.number # n
                      /\ pulls' = pulls \cup {PR(n, branch, base)}
                      /\ log' = log \cup {CreateCall(branch, base, n)}
                /\ pc' = "reconciling"
            /\ Cardinality(prs) = 1 =>
                \A pr \in prs :
                    /\ pr.base # base =>
                          /\ pulls' = (pulls \ {pr}) \cup {[pr EXCEPT !.base = base]}
                          /\ log' = log \cup {EditCall(branch, base, pr.number)}
                    /\ pr.base = base => pulls' = pulls /\ log' = log
                    /\ pc' = "reconciling"
            /\ Cardinality(prs) > 1 =>
                /\ pulls' = pulls
                /\ log' = log
                /\ pc' = "fatal"
                /\ err' = Fatal("multipleprs", {pr.number : pr \in prs}, {branch})
      ]_vars

\* C8 witness: the open pull request of me-x had base develop, the computed
\* base is main, and its base was updated to main.
C8_Witness ==
    /\ upstream = <<"origin", "main">>
    /\ EditCall("me-x", "main", 1) \in log
    /\ PR(1, "me-x", "main") \in pulls
    /\ PR(1, "me-x", "develop") \notin pulls

\* C9: a run of upload that follows a run which returned with every push
\* successful creates no pull request, updates no base and leaves every remote
\* branch where it was.
C9_Idempotent ==
    [][ (run >= 2 /\ prevclean) => (pulls' = pulls /\ refs' = refs) ]_vars

\* C10: when the chain has a structural error (a merge commit, a label that
\* reappears, a gap without label, a commit with several annotation lines),
\* no push, pull-request creation or base update is issued and no remote
\* branch is written.
C10_NoSideEffectOnError ==
    ( \/ Merges(commits) > 0
      \/ ReappearingLabels(Labels(commits)) # {}
      \/ HasGap(Labels(commits))
      \/ \E i \in 1..Len(commits) : AnnotationLines(commits[i].msg) >= 2 )
    => (log = {} /\ refs = NoRefs /\ pc \notin {"pushing", "reconciling", "done"})

\* C11 as claimed: when the run ends on a branch with several open pull
\* requests, the groups after it have been processed all the same, so each of
\* them has an open pull request.
C11_ErrorConfined ==
    (pc = "fatal" /\ err.kind = "multipleprs" /\ ~DRY_RUN) =>
        \A j \in (idx + 1)..Len(groups) : \E pr \in pulls : pr.head = groups[j].branch

\* C11 amended: a branch with several open pull requests ends the whole run at
\* that group: the iteration changes no pull request and stops the loop, no
\* step follows, the pull requests created or re-based for the groups before
\* it stay, and no call was issued for a group after it.
C11_ErrorEndsRun ==
    /\ [][ (pc = "reconciling" /\ idx <= Len(groups)
             /\ Cardinality({pr \in pulls : pr.head = groups[idx].branch}) > 1)
           => (pc' = "fatal" /\ idx' = idx /\ pulls' = pulls /\ log' = log) ]_vars
    /\ [][ pc # "fatal" ]_vars
    /\ []( (pc = "fatal" /\ err.kind = "multipleprs") =>
            \A c \in {d \in log : d.op \in {"create", "edit"}} :
                /\ \E i \in 1..(idx - 1) : groups[i].branch = c.branch
                /\ \E pr \in pulls : pr.number = c.number /\ pr.head = c.branch )

\* C11 witness: the run ended on the second of three groups, after a pull
\* request was created for the first.
C11_Witness ==
    /\ pc = "fatal"
    /\ err.kind = "multipleprs"
    /\ idx = 2
    /\ Len(groups) = 3
    /\ \E c \in log : c.op = "create" /\ c.branch = groups[1].branch
    /\ \A pr \in pulls : pr.head # groups[3].branch

\* C12: a run of upload in which a force-push failed does not return as a
\* successful run.
C12_PushFailurePropagated ==
    pc = "done" => \A g \in 1..Len(pushres) : pushres[g] # "failed"

\* C13: in dry-run mode no force-push, create_pull or base edit is issued, so
\* no remote branch and no pull request changes; and when the run returns,
\* every push, every pull-request creation and every base update it planned
\* has been printed.
C13_DryRunMutatesNothing ==
    /\ [](DRY_RUN => (log = {} /\ refs = NoRefs))
    /\ [][ DRY_RUN => pulls' = pulls ]_vars
    /\ []( (DRY_RUN /\ pc = "done") =>
            \A i \in 1..Len(groups) :
                LET b == groups[i].branch
                    base == Base(groups, upstream, i)
                    prs == {pr \in pulls : pr.head = b}
                IN  /\ Printed("DRY RUN: Pushing", b, "") \in out
                    /\ prs = {} => Printed("Creating PR", b, base) \in out
                    /\ (Cardinality(prs) = 1 /\ \A pr \in prs : pr.base # base)
                          => Printed("Updating base branch", b, base) \in out )

\* C13 witness: a dry run over two groups returned having printed a push, a
\* base update for me-x and a creation for me-y, with the remote as it was.
C13_Witness ==
    /\ DRY_RUN
    /\ pc = "done"
    /\ upstream = <<"origin", "main">>
    /\ pulls = {PR(1, "me-x", "develop")}
    /\ refs = NoRefs
    /\ Printed("DRY RUN: Pushing", "me-x", "") \in out
    /\ Printed("Updating base branch", "me-x", "main") \in out
    /\ Printed("Creating PR", "me-y", "me-x") \in out

\* C14: the pushes handed to the thread pool for a chain that passed
\* validation target pairwise distinct remote branch names.
C14_DistinctPushTargets ==
    pc = "pushing" =>
        \A i, j \in 1..Len(groups) : i # j => groups[i].branch # groups[j].branch

\* The maximal runs of commits with a label (neither None nor empty).
LabelledRuns(cs) ==
    {g \in {GroupBy(Labels(cs))[k] : k \in 1..Len(GroupBy(Labels(cs)))} : Truthy(g.branch)}

\* The pushes of the current run are over and all of them succeeded.
PushesDoneOk ==
    /\ pc \in {"reconciling", "done"} \/ (pc = "fatal" /\ err.kind = "multipleprs")
    /\ \A g \in 1..Len(pushres) : pushres[g] = "ok"

\* C15: once the pushes of an upload (not dry-run) have all succeeded, for
\* every run of commits with a label the remote branch <prefix><label> points
\* at the last commit of that run, whatever happens to the pull requests.
C15_BranchAtGroupHead ==
    (~DRY_RUN /\ PushesDoneOk) =>
        \A g \in LabelledRuns(commits) :
            /\ gh_branch_prefix \o g.branch[1] \in DOMAIN refs
            /\ refs[gh_branch_prefix \o g.branch[1]] = g.cs[Len(g.cs)]

\* C15 witness: upload returned for the chain x, x, y with every push
\* successful; me-x is at commit 2 and me-y at commit 3, and the pull request
\* of me-x was re-based while the one of me-y was created.
C15_Witness ==
    /\ ~DRY_RUN
    /\ pc = "done"
    /\ PushesDoneOk
    /\ Labels(commits) = <<Some("x"), Some("x"), Some("y")>>
    /\ refs = [b \in {"me-x", "me-y"} |-> IF b = "me-x" THEN 2 ELSE 3]
    /\ \E c \in log : c.op = "edit" /\ c.branch = "me-x"
    /\ \E c \in log : c.op = "create" /\ c.branch = "me-y"

\* C16: a commit without annotation line resolves to what its parent resolves
\* to, and to no label when it is the root; so in a chain without any
\* annotation line every commit has no label, no group is formed and nothing
\* is pushed.
C16_Inheritance ==
    run >= 1 =>
        /\ \A i \in 1..Len(commits) :
              AnnotationLines(commits[i].msg) = 0 =>
                  gh_branch(commits, i) =
                      IF i > 1 THEN gh_branch(commits, i - 1) ELSE Label(None)
        /\ (\A i \in 1..Len(commits) : AnnotationLines(commits[i].msg) = 0) =>
              /\ \A i \in 1..Len(commits) : Labels(commits)[i] = None
              /\ groups = <<>>
              /\ log = {}
              /\ refs = NoRefs

\* C16 witness: the second commit has no annotation line and took the label x
\* of its parent; upload formed the one group me-x of both commits.
C16_Witness ==
    /\ run >= 1
    /\ Len(commits) = 2
    /\ AnnotationLines(commits[2].msg) = 0
    /\ Labels(commits) = <<Some("x"), Some("x")>>
    /\ pc = "pushing"
    /\ groups = <<[branch |-> "me-x", cs |-> <<1, 2>>]>>

\* C17: when an upload (not dry-run) has returned, every group of commits with
\* a label has exactly one open pull request with its branch as head, and the
\* base of that pull request is the base computed for the group; and no step
\* adds a pull request for a head that already has an open one.
C17_OnePullPerGroup ==
    /\ []( (pc = "done" /\ ~DRY_RUN) =>
            \A i \in 1..Len(groups) :
                Truthy(GroupBy(Labels(commits))[i].branch) =>
                    /\ Cardinality({pr \in pulls : pr.head = groups[i].branch}) = 1
                    /\ \A pr \in pulls :
                          pr.head = groups[i].branch => pr.base = Base(groups, upstream, i) )
    /\ [][ \A p \in pulls' :
              (\A q \in pulls : q.number # p.number) => (\A q \in pulls : q.head # p.head) ]_vars

\* C17 witness: upload returned for the groups me-x and me-y; the open pull
\* request of me-x was re-based from develop to main and the one of me-y was
\* created on top of me-x.
C17_Witness ==
    /\ pc = "done"
    /\ ~DRY_RUN
    /\ upstream = <<"origin", "main">>
    /\ Len(groups) = 2
    /\ pulls = {PR(1, "me-x", "main"), PR(2, "me-y", "me-x")}
    /\ EditCall("me-x", "main", 1) \in log
    /\ CreateCall("me-y", "me-x", 2) \in log

\* C18: the labels resolved for a chain never have a commit without label
\* (None or empty) between two commits with a label.
C18_NoGapInLabels ==
    (run >= 1 /\ NoMultiple) => ~HasGap(Labels(commits))

\* C19: while create_and_update_prs runs, and whenever a pull request has been
\* created or re-based by the current run, no push is still pending.
C19_PushesBeforePulls ==
    (pc = "reconciling" \/ \E c \in log : c.op \in {"create", "edit"}) =>
        \A g \in 1..Len(pushres) : pushres[g] # "pending"

\* C19 witness: the reconciliation of two groups starts after one push
\* succeeded and the other one failed.
C19_Witness ==
    /\ pc = "reconciling"
    /\ idx = 1
    /\ Len(groups) = 2
    /\ pushres = <<"failed", "ok">>

\* C20: every pull request created or re-based by an upload (not dry-run)
\* belongs to a group whose push succeeded and whose base group's push
\* succeeded.
C20_PullOnlyAfterPush ==
    ~DRY_RUN =>
        \A c \in {d \in log : d.op \in {"create", "edit"}} :
            \E i \in 1..Len(groups) :
                /\ groups[i].branch = c.branch
                /\ pushres[i] = "ok"
                /\ i > 1 => pushres[i - 1] = "ok"

====
